---- MODULE Spec2Model ----
(***************************************************************************)
(* Model of the observability package: the provider orchestrator           *)
(* (InitializeObservabilityProvider and the cleanup closure it returns),   *)
(* tracer setup with its sampler selection, the Metrics facade with its    *)
(* three instrument caches, and the Logger facade's trace enrichment.      *)
(***************************************************************************)
EXTENDS Integers, Sequences, FiniteSets, TLC

\* ------------------------------------------------------------------------
\* Bounds of the model
\* ------------------------------------------------------------------------
MaxPaths == 1        \* longest LogConfig.OutputPaths enumerated
MaxNum == 4          \* sampling rates are the halves num/2, |num| <= MaxNum
MaxCleanups == 2     \* sequential invocations of the returned cleanup
MaxOps == 1          \* Metrics operations each goroutine starts
MaxLog == 2          \* log calls made on the Logger facade

\* ------------------------------------------------------------------------
\* Program constants
\* ------------------------------------------------------------------------
CleanupTimeoutSeconds == 5
\* LogLevel (iota)
DebugLevel == 0
InfoLevel == 1
WarnLevel == 2
ErrorLevel == 3
FatalLevel == 4

VARIABLES
    \* --- orchestrator ---------------------------------------------------
    pc,              \* position of the orchestrator / cleanup
    logConfig,       \* *LogConfig passed to InitializeObservabilityProvider
    tracingConfig,   \* *TracingConfig
    metricsConfig,   \* *MetricsConfig
    logger,          \* local `logger` of InitializeObservabilityProvider
    tracer,          \* local `tracer`
    tracerShutdown,  \* local `tracerShutdown`
    metrics,         \* local `metrics` (the *Metrics and its shutdown closure)
    sampler,         \* sampler handed to the tracer provider by setupTracing
    result,          \* what InitializeObservabilityProvider returned
    cleanupCtx,      \* `ctx` local of the running cleanup invocation
    cleanups,        \* number of cleanup invocations started
    calls,           \* history of the calls made, in program order
    \* --- Metrics facade and its callers ----------------------------------
    facade,          \* the *Metrics under use (meter, shutdown closure)
    counters,        \* m.counters: name -> instrument
    gauges,          \* m.gauges
    histograms,      \* m.histograms
    instruments,     \* instruments the metrics backend has created
    recorded,        \* measurements the backend has received
    mpc,             \* position of each calling goroutine
    cur,             \* the operation each goroutine is executing
    held,            \* the instrument each goroutine holds in a local
    ret,             \* what the goroutine's last operation returned
    printed,         \* the stream that operation printed to, or "none"
    ncalls,          \* operations each goroutine has started
    crashed,         \* "none", or how the process died
    \* --- Logger facade ---------------------------------------------------
    sink,            \* entries the logging backend has written
    lastLog,         \* the last call the facade made to the backend
    exited           \* the process ended in Fatal

orchVars == <<pc, logConfig, tracingConfig, metricsConfig, logger, tracer,
              tracerShutdown, metrics, sampler, result, cleanupCtx, cleanups,
              calls>>

metVars == <<facade, counters, gauges, histograms, instruments, recorded, mpc,
             cur, held, ret, printed, ncalls, crashed>>

logVars == <<sink, lastLog, exited>>

vars == <<orchVars, metVars, logVars>>

\* ------------------------------------------------------------------------
\* Contexts
\* ------------------------------------------------------------------------
\* The context the caller hands to InitializeObservabilityProvider.
InitCtx == [kind |-> "caller", id |-> 0, timeout |-> 0]
\* context.WithTimeout(context.Background(), 5*time.Second) of the k-th cleanup.
TimeoutCtx(k) == [kind |-> "timeout", id |-> k, timeout |-> CleanupTimeoutSeconds]
NoCtx == [kind |-> "none", id |-> 0, timeout |-> 0]

\* ------------------------------------------------------------------------
\* Errors: nil is the empty chain, fmt.Errorf("...: %w", err) prepends.
\* ------------------------------------------------------------------------
NilErr == <<>>
Wrap(msg, err) == <<msg>> \o err

\* ------------------------------------------------------------------------
\* Inputs
\* ------------------------------------------------------------------------
StreamPaths == {"stdout", "stderr"}
FilePaths == {"/var/log/app.log"}
Paths == StreamPaths \cup FilePaths
PathSeqs == UNION {[1..n -> Paths] : n \in 0..MaxPaths}

\* A float64 sampling rate: the rational num/den (here the halves), or NaN.
Rates == [nan : {FALSE}, num : (-MaxNum)..MaxNum, den : {2}]
            \cup {[nan |-> TRUE, num |-> 0, den |-> 2]}
\* float64 comparisons; every comparison with NaN is false.
RateGE1(r) == ~r.nan /\ r.num >= r.den
RateLE0(r) == ~r.nan /\ r.num <= 0

\* ------------------------------------------------------------------------
\* NewLogger (logger.go): opens every output path in order; the first file
\* that cannot be opened fails the construction.
\* ------------------------------------------------------------------------
NilLogger == [present |-> FALSE, outputs |-> <<>>, level |-> InfoLevel]

\* The `switch config.Level` of NewLogger: unknown values mean info.
LogLevels == {DebugLevel, InfoLevel, WarnLevel, ErrorLevel, FatalLevel}
ConfigLevels == LogLevels \cup {FatalLevel + 1}
ZapLevel(l) == IF l \in LogLevels THEN l ELSE InfoLevel

NewLogger(config, openable) ==
    LET paths == config.OutputPaths
        bad == {i \in 1..Len(paths) :
                    paths[i] \notin StreamPaths /\ paths[i] \notin openable}
        outs == IF Len(paths) = 0 THEN <<"stdout">> ELSE paths
    IN  IF bad # {}
        THEN [logger |-> NilLogger, err |-> <<"open failed">>]
        ELSE [logger |-> [present |-> TRUE, outputs |-> outs,
                          level |-> ZapLevel(config.Level)],
              err |-> NilErr]

\* ------------------------------------------------------------------------
\* setupTracing
\* ------------------------------------------------------------------------
NoSampler == [kind |-> "none", ratio |-> [nan |-> FALSE, num |-> 0, den |-> 2]]

SelectSampler_strict(rate) ==
    IF ~rate.nan /\ rate.num > rate.den
    THEN [kind |-> "AlwaysSample", ratio |-> NoSampler.ratio]
    ELSE IF RateLE0(rate)
         THEN [kind |-> "NeverSample", ratio |-> NoSampler.ratio]
         ELSE [kind |-> "TraceIDRatioBased", ratio |-> rate]
\* lines 99-107 of setupTracing
SelectSampler(rate) ==
    IF RateGE1(rate)
    THEN [kind |-> "AlwaysSample", ratio |-> NoSampler.ratio]
    ELSE IF RateLE0(rate)
         THEN [kind |-> "NeverSample", ratio |-> NoSampler.ratio]
         ELSE [kind |-> "TraceIDRatioBased", ratio |-> rate]

\* resErr / expErr: whether resource.New / otlptrace.New fail.
setupTracing(config, resErr, expErr) ==
    IF ~config.Enabled
    THEN [tracer |-> "tracer", shutdown |-> "noop", sampler |-> NoSampler,
          err |-> NilErr]
    ELSE IF resErr
    THEN [tracer |-> "nil", shutdown |-> "nil", sampler |-> NoSampler,
          err |-> Wrap("failed to create resource", <<"resource">>)]
    ELSE IF expErr
    THEN [tracer |-> "nil", shutdown |-> "nil", sampler |-> NoSampler,
          err |-> Wrap("failed to create OTLP exporter", <<"exporter">>)]
    ELSE [tracer |-> "tracer", shutdown |-> "tp.Shutdown",
          sampler |-> SelectSampler(config.SamplingRate), err |-> NilErr]

\* ------------------------------------------------------------------------
\* NewMetrics (metrics.go)
\* ------------------------------------------------------------------------
NilMetrics == [present |-> FALSE, meter |-> "nil", shutdown |-> "nil",
               shutdownCtx |-> NoCtx]

\* The context the shutdown closure of an enabled facade hands to
\* meterProvider.Shutdown: the `ctx` the closure captured.
ShutdownClosureCtx(ctx) == ctx

NewMetrics(ctx, config, resErr, expErr) ==
    IF ~config.Enabled
    THEN [metrics |-> [present |-> TRUE, meter |-> "nil", shutdown |-> "noop",
                       shutdownCtx |-> NoCtx],
          err |-> NilErr]
    ELSE IF resErr
    THEN [metrics |-> NilMetrics,
          err |-> Wrap("failed to create resource", <<"resource">>)]
    ELSE IF expErr
    THEN [metrics |-> NilMetrics,
          err |-> Wrap("failed to create OTLP exporter", <<"exporter">>)]
    ELSE [metrics |-> [present |-> TRUE, meter |-> "meter",
                       shutdown |-> "meterProvider.Shutdown",
                       shutdownCtx |-> ShutdownClosureCtx(ctx)],
          err |-> NilErr]

\* ------------------------------------------------------------------------
\* The call history
\* ------------------------------------------------------------------------
\* inv: 0 during initialization, k during the k-th cleanup invocation.
Call(op, ctx, failed, inv) == [op |-> op, ctx |-> ctx, failed |-> failed, inv |-> inv]

\* tracerShutdown(ctx): the no-op closure calls nothing; tp.Shutdown reaches
\* the tracing backend with the context it was given.
TracerShutdownCalls(shutdown, ctx, failed, inv) ==
    <<Call("tracerShutdown", ctx, failed, inv)>> \o
    (IF shutdown = "tp.Shutdown"
     THEN <<Call("tp.Shutdown", ctx, failed, inv)>> ELSE <<>>)

\* m.Shutdown(ctx) returns m.shutdown(): the argument is not passed on, the
\* closure uses the context it holds.
MetricsShutdownCalls(m, ctx, failed, inv) ==
    <<Call("metrics.Shutdown", ctx, failed, inv)>> \o
    (IF m.shutdown = "meterProvider.Shutdown"
     THEN <<Call("meterProvider.Shutdown", m.shutdownCtx, failed, inv)>> ELSE <<>>)

\* ------------------------------------------------------------------------
\* State of the Metrics facade (metrics.go) and of the goroutines using it
\* ------------------------------------------------------------------------
Procs == {"g1", "g2"}
Names == {"requests", "latency"}
Kinds == {"counter", "histogram", "gauge"}

\* Operations that look the instrument up and create it on first use.
LazyOps == {"IncrementCounter", "RecordHistogram", "MeasureDuration"}
CreateOps == {"CreateCounter", "CreateHistogram", "CreateGauge"}
KindOf(op) ==
    CASE op \in {"IncrementCounter", "CreateCounter"} -> "counter"
      [] op \in {"RecordHistogram", "CreateHistogram", "MeasureDuration"} -> "histogram"
      [] OTHER -> "gauge"

\* Go maps: lookup with the `exists` flag, and assignment.
NoInstrument == [id |-> 0, kind |-> "none", name |-> "", callback |-> FALSE]
MapHas(m, k) == k \in DOMAIN m
MapGet(m, k) == IF k \in DOMAIN m THEN m[k] ELSE NoInstrument
MapPut(m, k, v) == [x \in DOMAIN m \cup {k} |-> IF x = k THEN v ELSE m[x]]
EmptyMap == [x \in {} |-> NoInstrument]

CacheOf(kind) ==
    CASE kind = "counter" -> counters
      [] kind = "histogram" -> histograms
      [] OTHER -> gauges

NoOp == [op |-> "none", name |-> ""]

MetricsIdle ==
    /\ counters = EmptyMap
    /\ gauges = EmptyMap
    /\ histograms = EmptyMap
    /\ instruments = {}
    /\ recorded = {}
    /\ mpc = [p \in Procs |-> "idle"]
    /\ cur = [p \in Procs |-> NoOp]
    /\ held = [p \in Procs |-> NoInstrument]
    /\ ret = [p \in Procs |-> "none"]
    /\ printed = [p \in Procs |-> "none"]
    /\ ncalls = [p \in Procs |-> 0]
    /\ crashed = "none"

\* ------------------------------------------------------------------------
\* State of the Logger facade (logger.go) and the tracer's ID getters
\* ------------------------------------------------------------------------
\* Contexts handed to the log methods: without a span, or with a span whose
\* span context holds a 16-byte trace ID and an 8-byte span ID.
ZeroTraceID == [i \in 1..16 |-> 0]
ZeroSpanID == [i \in 1..8 |-> 0]
TraceIDs == {ZeroTraceID, [i \in 1..16 |-> IF i = 16 THEN 1 ELSE 0],
             [i \in 1..16 |-> 171]}
SpanIDs == {ZeroSpanID, [i \in 1..8 |-> IF i = 1 THEN 16 ELSE 0]}
LogContexts ==
    {[span |-> FALSE, traceID |-> ZeroTraceID, spanID |-> ZeroSpanID]}
        \cup [span : {TRUE}, traceID : TraceIDs, spanID : SpanIDs]

\* trace.SpanContextFromContext: the span's context, or the zero SpanContext.
SpanContextFromContext(ctx) ==
    IF ctx.span THEN [traceID |-> ctx.traceID, spanID |-> ctx.spanID]
    ELSE [traceID |-> ZeroTraceID, spanID |-> ZeroSpanID]
\* SpanContext.IsValid: a non-zero trace ID and a non-zero span ID.
HasTraceID(sc) == \E i \in DOMAIN sc.traceID : sc.traceID[i] # 0
HasSpanID(sc) == \E i \in DOMAIN sc.spanID : sc.spanID[i] # 0
IsValid(sc) == HasTraceID(sc) /\ HasSpanID(sc)

\* TraceID.String / SpanID.String: lower-case hex, two digits per byte.
HexDigits == <<"0", "1", "2", "3", "4", "5", "6", "7",
               "8", "9", "a", "b", "c", "d", "e", "f">>
RECURSIVE HexString(_)
HexString(bytes) ==
    IF bytes = <<>> THEN ""
    ELSE HexDigits[(Head(bytes) \div 16) + 1] \o HexDigits[(Head(bytes) % 16) + 1]
            \o HexString(Tail(bytes))

\* Tracer.GetTraceID / Tracer.GetSpanID (tracer.go)
GetTraceID(ctx) ==
    LET spanCtx == SpanContextFromContext(ctx) IN
    IF IsValid(spanCtx) THEN HexString(spanCtx.traceID) ELSE ""
GetSpanID(ctx) ==
    LET spanCtx == SpanContextFromContext(ctx) IN
    IF IsValid(spanCtx) THEN HexString(spanCtx.spanID) ELSE ""

\* zap.String(key, value)
ZapString(key, value) == [key |-> key, value |-> value]

extractTraceFields_traceOnly(ctx) ==
    LET spanCtx == SpanContextFromContext(ctx) IN
    IF HasTraceID(spanCtx)
    THEN <<ZapString("trace_id", HexString(spanCtx.traceID)),
           ZapString("span_id", HexString(spanCtx.spanID))>>
    ELSE <<>>
\* extractTraceFields (logger.go)
extractTraceFields(ctx) ==
    LET spanCtx == SpanContextFromContext(ctx) IN
    IF IsValid(spanCtx)
    THEN <<ZapString("trace_id", HexString(spanCtx.traceID)),
           ZapString("span_id", HexString(spanCtx.spanID))>>
    ELSE <<>>

\* Fields a caller passes to a log method.
UserFields == {<<>>, <<ZapString("user", "u1")>>}

NoLog == [called |-> FALSE, level |-> DebugLevel,
          ctx |-> [span |-> FALSE, traceID |-> ZeroTraceID, spanID |-> ZeroSpanID],
          user |-> <<>>, fields |-> <<>>]

LoggerIdle ==
    /\ sink = <<>>
    /\ lastLog = NoLog
    /\ exited = FALSE

\* ------------------------------------------------------------------------
\* InitializeObservabilityProvider
\* ------------------------------------------------------------------------
NilProvider == [present |-> FALSE, Logger |-> NilLogger, Tracer |-> "nil",
                Metrics |-> NilMetrics]
NoResult == [returned |-> FALSE, provider |-> NilProvider, cleanup |-> "nil",
             err |-> NilErr]

\* return nil, nil, fmt.Errorf("failed to initialize <stage>: %w", err)
Failure_swallow(stage, err) ==
    [returned |-> TRUE, provider |-> NilProvider, cleanup |-> "nil", err |-> NilErr]
Failure(stage, err) ==
    [returned |-> TRUE, provider |-> NilProvider, cleanup |-> "nil",
     err |-> Wrap("failed to initialize " \o stage, err)]

\* return &ObservabilityProvider{...}, cleanup, nil
Success(l, t, m) ==
    [returned |-> TRUE,
     provider |-> [present |-> TRUE, Logger |-> l, Tracer |-> t, Metrics |-> m],
     cleanup |-> "cleanup", err |-> NilErr]

ReturnCall(failed) == Call("return", NoCtx, failed, 0)

\* Where the orchestrator goes after a stage: `if err != nil { return ... }`.
AfterLogger(err) == IF err # NilErr THEN "Failed" ELSE "LoggerReady"
AfterTracer_fallthrough(err) == "TracerReady"
AfterTracer(err) == IF err # NilErr THEN "Failed" ELSE "TracerReady"
AfterMetrics(err) == IF err # NilErr THEN "Failed" ELSE "Running"

Init ==
    /\ pc = "Unstarted"
    /\ logConfig \in [OutputPaths : PathSeqs, Level : {InfoLevel}]
    /\ tracingConfig \in [Enabled : BOOLEAN, SamplingRate : Rates]
    /\ metricsConfig \in [Enabled : BOOLEAN]
    /\ logger = NilLogger
    /\ tracer = "nil"
    /\ tracerShutdown = "nil"
    /\ metrics = NilMetrics
    /\ sampler = NoSampler
    /\ result = NoResult
    /\ cleanupCtx = NoCtx
    /\ cleanups = 0
    /\ calls = <<>>
    /\ facade = NilMetrics
    /\ MetricsIdle
    /\ LoggerIdle

\* lines 21-25
InitLogger ==
    /\ pc = "Unstarted"
    /\ \E openable \in SUBSET FilePaths :
        LET r == NewLogger(logConfig, openable) IN
        /\ pc' = AfterLogger(r.err)
        /\ logger' = r.logger
        /\ IF pc' = "Failed"
           THEN /\ result' = Failure("logger", r.err)
                /\ calls' = calls \o <<Call("NewLogger", NoCtx, r.err # NilErr, 0),
                                       ReturnCall(result'.err # NilErr)>>
           ELSE /\ calls' = Append(calls, Call("NewLogger", NoCtx, r.err # NilErr, 0))
                /\ UNCHANGED result
    /\ UNCHANGED <<logConfig, tracingConfig, metricsConfig, tracer,
                   tracerShutdown, metrics, sampler, cleanupCtx, cleanups>>
    /\ UNCHANGED <<metVars, logVars>>

\* lines 27-31
InitTracer ==
    /\ pc = "LoggerReady"
    /\ \E resErr \in BOOLEAN, expErr \in BOOLEAN :
        LET r == setupTracing(tracingConfig, resErr, expErr) IN
        /\ pc' = AfterTracer(r.err)
        /\ tracer' = r.tracer
        /\ tracerShutdown' = r.shutdown
        /\ sampler' = r.sampler
        /\ IF pc' = "Failed"
           THEN /\ result' = Failure("tracer", r.err)
                /\ calls' = calls \o <<Call("setupTracing", InitCtx, r.err # NilErr, 0),
                                       ReturnCall(result'.err # NilErr)>>
           ELSE /\ calls' = Append(calls, Call("setupTracing", InitCtx, r.err # NilErr, 0))
                /\ UNCHANGED result
    /\ UNCHANGED <<logConfig, tracingConfig, metricsConfig, logger, metrics,
                   cleanupCtx, cleanups>>
    /\ UNCHANGED <<metVars, logVars>>

\* What the orchestrator does when NewMetrics fails, before it returns
\* (line 36): tracerShutdown(ctx), its error dropped.
OnMetricsFailure_leak(shutdown, ctx, failed) == <<>>
OnMetricsFailure(shutdown, ctx, failed) == TracerShutdownCalls(shutdown, ctx, failed, 0)

\* lines 33-66
InitMetrics ==
    /\ pc = "TracerReady"
    /\ \E resErr \in BOOLEAN, expErr \in BOOLEAN, sdErr \in BOOLEAN :
        LET r == NewMetrics(InitCtx, metricsConfig, resErr, expErr)
            sdFailed == sdErr /\ tracerShutdown = "tp.Shutdown"
        IN
        /\ pc' = AfterMetrics(r.err)
        /\ metrics' = r.metrics
        /\ IF pc' = "Failed"
           THEN /\ result' = Failure("metrics", r.err)
                /\ calls' = Append(calls, Call("NewMetrics", InitCtx, r.err # NilErr, 0))
                               \o OnMetricsFailure(tracerShutdown, InitCtx, sdFailed)
                               \o <<ReturnCall(result'.err # NilErr)>>
           ELSE /\ result' = Success(logger, tracer, metrics')
                /\ calls' = calls \o <<Call("NewMetrics", InitCtx, r.err # NilErr, 0),
                                       ReturnCall(result'.err # NilErr)>>
    /\ UNCHANGED <<logConfig, tracingConfig, metricsConfig, logger, tracer,
                   tracerShutdown, sampler, cleanupCtx, cleanups>>
    /\ UNCHANGED <<metVars, logVars>>

\* ------------------------------------------------------------------------
\* The cleanup closure (lines 41-56), one invocation at a time
\* ------------------------------------------------------------------------
\* A failing step is logged and the closure goes on to the next step.
CleanupAfter_abort(step, failed) ==
    IF failed THEN "Running"
    ELSE CASE step = "CleanupMetrics" -> "CleanupTracer"
           [] step = "CleanupTracer" -> "CleanupSync"
           [] OTHER -> "Running"
CleanupAfter(step, failed) ==
    CASE step = "CleanupMetrics" -> "CleanupTracer"
      [] step = "CleanupTracer" -> "CleanupSync"
      [] OTHER -> "Running"

\* `defer cancel()` and the return of the closure, when the closure ends.
CleanupEnd(next, k) ==
    IF next = "Running" THEN <<Call("cleanup.return", NoCtx, FALSE, k)>> ELSE <<>>

\* line 42
CleanupBegin ==
    /\ pc = "Running"
    /\ cleanups < MaxCleanups
    /\ cleanups' = cleanups + 1
    /\ cleanupCtx' = TimeoutCtx(cleanups')
    /\ calls' = Append(calls, Call("cleanup", cleanupCtx', FALSE, cleanups'))
    /\ pc' = "CleanupMetrics"
    /\ UNCHANGED <<logConfig, tracingConfig, metricsConfig, logger, tracer,
                   tracerShutdown, metrics, sampler, result>>
    /\ UNCHANGED <<metVars, logVars>>

\* lines 45-47
CleanupMetrics ==
    /\ pc = "CleanupMetrics"
    /\ \E err \in BOOLEAN :
        LET failed == err /\ metrics.shutdown = "meterProvider.Shutdown" IN
        /\ pc' = CleanupAfter("CleanupMetrics", failed)
        /\ calls' = calls \o MetricsShutdownCalls(metrics, cleanupCtx, failed, cleanups)
                          \o (IF failed
                              THEN <<Call("logger.Error", cleanupCtx, FALSE, cleanups)>>
                              ELSE <<>>)
                          \o CleanupEnd(pc', cleanups)
    /\ UNCHANGED <<logConfig, tracingConfig, metricsConfig, logger, tracer,
                   tracerShutdown, metrics, sampler, result, cleanupCtx, cleanups>>
    /\ UNCHANGED <<metVars, logVars>>

\* lines 49-51
CleanupTracer ==
    /\ pc = "CleanupTracer"
    /\ \E err \in BOOLEAN :
        LET failed == err /\ tracerShutdown = "tp.Shutdown" IN
        /\ pc' = CleanupAfter("CleanupTracer", failed)
        /\ calls' = calls \o TracerShutdownCalls(tracerShutdown, cleanupCtx, failed, cleanups)
                          \o (IF failed
                              THEN <<Call("logger.Error", cleanupCtx, FALSE, cleanups)>>
                              ELSE <<>>)
                          \o CleanupEnd(pc', cleanups)
    /\ UNCHANGED <<logConfig, tracingConfig, metricsConfig, logger, tracer,
                   tracerShutdown, metrics, sampler, result, cleanupCtx, cleanups>>
    /\ UNCHANGED <<metVars, logVars>>

\* lines 53-56
CleanupSync ==
    /\ pc = "CleanupSync"
    /\ \E failed \in BOOLEAN :
        /\ pc' = CleanupAfter("CleanupSync", failed)
        /\ calls' = calls \o <<Call("logger.Sync", NoCtx, failed, cleanups)>>
                          \o (IF failed
                              THEN <<Call("fmt.Printf", NoCtx, FALSE, cleanups)>>
                              ELSE <<>>)
                          \o CleanupEnd(pc', cleanups)
    /\ UNCHANGED <<logConfig, tracingConfig, metricsConfig, logger, tracer,
                   tracerShutdown, metrics, sampler, result, cleanupCtx, cleanups>>
    /\ UNCHANGED <<metVars, logVars>>

\* ------------------------------------------------------------------------
\* Operations of the Metrics facade, one step per map access or backend call
\* ------------------------------------------------------------------------
\* The operation of goroutine p returns r; pr: the stream it printed the
\* failure to first, or "none".
Finish(p, r, pr) ==
    /\ mpc' = [mpc EXCEPT ![p] = "idle"]
    /\ ret' = [ret EXCEPT ![p] = r]
    /\ printed' = [printed EXCEPT ![p] = pr]

\* Entry of IncrementCounter, RecordHistogram, Create*, or of the stop
\* function MeasureDuration returned.
MCall(p) ==
    /\ crashed = "none"
    /\ mpc[p] = "idle"
    /\ ncalls[p] < MaxOps
    /\ \E op \in LazyOps \cup CreateOps, name \in Names :
        /\ cur' = [cur EXCEPT ![p] = [op |-> op, name |-> name]]
        /\ mpc' = [mpc EXCEPT ![p] = IF op \in LazyOps THEN "lookup" ELSE "check"]
    /\ ncalls' = [ncalls EXCEPT ![p] = @ + 1]
    /\ ret' = [ret EXCEPT ![p] = "pending"]
    /\ printed' = [printed EXCEPT ![p] = "none"]
    /\ held' = [held EXCEPT ![p] = NoInstrument]
    /\ UNCHANGED <<facade, counters, gauges, histograms, instruments, recorded, crashed>>
    /\ UNCHANGED <<orchVars, logVars>>

\* Metrics.Shutdown (lines 80-82): runs the shutdown closure.
MShutdown(p) ==
    /\ crashed = "none"
    /\ mpc[p] = "idle"
    /\ ncalls[p] < MaxOps
    /\ \E err \in BOOLEAN :
        LET failed == err /\ facade.shutdown = "meterProvider.Shutdown" IN
        /\ ret' = [ret EXCEPT ![p] = IF failed THEN "error" ELSE "nil"]
    /\ cur' = [cur EXCEPT ![p] = [op |-> "Shutdown", name |-> ""]]
    /\ ncalls' = [ncalls EXCEPT ![p] = @ + 1]
    /\ printed' = [printed EXCEPT ![p] = "none"]
    /\ held' = [held EXCEPT ![p] = NoInstrument]
    /\ UNCHANGED <<facade, counters, gauges, histograms, instruments, recorded, mpc, crashed>>
    /\ UNCHANGED <<orchVars, logVars>>

\* `counter, exists := m.counters[name]` of the lazy operations
\* (lines 104-105, 141-142, 191-192).
MLookup(p) ==
    /\ crashed = "none"
    /\ mpc[p] = "lookup"
    /\ LET c == CacheOf(KindOf(cur[p].op)) IN
        IF MapHas(c, cur[p].name)
        THEN /\ held' = [held EXCEPT ![p] = MapGet(c, cur[p].name)]
             /\ mpc' = [mpc EXCEPT ![p] = "use"]
        ELSE /\ mpc' = [mpc EXCEPT ![p] = "check"]
             /\ UNCHANGED held
    /\ UNCHANGED <<facade, counters, gauges, histograms, instruments, recorded,
                   cur, ret, printed, ncalls, crashed>>
    /\ UNCHANGED <<orchVars, logVars>>

\* `if counter, exists := m.counters[name]; exists { return counter, nil }`
\* of Create* (lines 86-88, 122-124, 159-161).
MCheck(p) ==
    /\ crashed = "none"
    /\ mpc[p] = "check"
    /\ LET c == CacheOf(KindOf(cur[p].op)) IN
        IF MapHas(c, cur[p].name)
        THEN /\ held' = [held EXCEPT ![p] = MapGet(c, cur[p].name)]
             /\ IF cur[p].op \in CreateOps
                THEN Finish(p, "nil", "none")
                ELSE /\ mpc' = [mpc EXCEPT ![p] = "use"]
                     /\ UNCHANGED <<ret, printed>>
        ELSE /\ mpc' = [mpc EXCEPT ![p] = "create"]
             /\ UNCHANGED <<held, ret, printed>>
    /\ UNCHANGED <<facade, counters, gauges, histograms, instruments, recorded,
                   cur, ncalls, crashed>>
    /\ UNCHANGED <<orchVars, logVars>>

\* A new instrument of the backend: a fresh identity each time it is asked.
NewInstrument(kind, name) ==
    [id |-> Cardinality(instruments) + 1, kind |-> kind, name |-> name,
     callback |-> FALSE]

\* fmt.Printf writes to the standard output.
PrintfStream == "stdout"

OnCreateError_swallow(p) == Finish(p, "nil", "none")
\* What an operation does when creation failed: IncrementCounter and
\* RecordHistogram print and return the error, the stop function prints and
\* returns nothing; Create* return the wrapped error.
OnCreateError(p) ==
    IF cur[p].op = "MeasureDuration" THEN Finish(p, "void", PrintfStream)
    ELSE IF cur[p].op \in LazyOps THEN Finish(p, "error", PrintfStream)
    ELSE Finish(p, "error", "none")

\* m.meter.Int64Counter / Float64Histogram / Float64ObservableGauge
\* (lines 90-96, 126-133, 163-169). On a facade built with metrics disabled
\* m.meter is the nil interface and the call panics.
MCreate(p) ==
    /\ crashed = "none"
    /\ mpc[p] = "create"
    /\ IF facade.meter = "nil"
       THEN /\ crashed' = "panic: nil pointer dereference"
            /\ UNCHANGED <<instruments, held, mpc, ret, printed>>
       ELSE /\ UNCHANGED crashed
            /\ \E fail \in BOOLEAN :
                IF fail
                THEN /\ OnCreateError(p)
                     /\ UNCHANGED <<instruments, held>>
                ELSE LET i == NewInstrument(KindOf(cur[p].op), cur[p].name) IN
                     /\ instruments' = instruments \cup {i}
                     /\ held' = [held EXCEPT ![p] = i]
                     /\ mpc' = [mpc EXCEPT ![p] =
                                  IF i.kind = "gauge" THEN "register" ELSE "insert"]
                     /\ UNCHANGED <<ret, printed>>
    /\ UNCHANGED <<facade, counters, gauges, histograms, recorded, cur, ncalls>>
    /\ UNCHANGED <<orchVars, logVars>>

\* m.meter.RegisterCallback of CreateGauge (lines 171-180).
MRegister(p) ==
    /\ crashed = "none"
    /\ mpc[p] = "register"
    /\ \E fail \in BOOLEAN :
        IF fail
        THEN /\ Finish(p, "error", "none")
             /\ UNCHANGED <<instruments, held>>
        ELSE LET g == [held[p] EXCEPT !.callback = TRUE] IN
             /\ instruments' = (instruments \ {held[p]}) \cup {g}
             /\ held' = [held EXCEPT ![p] = g]
             /\ mpc' = [mpc EXCEPT ![p] = "insert"]
             /\ UNCHANGED <<ret, printed>>
    /\ UNCHANGED <<facade, counters, gauges, histograms, recorded, cur, ncalls, crashed>>
    /\ UNCHANGED <<orchVars, logVars>>

\* `m.counters[name] = counter` and the return of Create* (lines 98-99,
\* 135-136, 182-183).
MInsert(p) ==
    /\ crashed = "none"
    /\ mpc[p] = "insert"
    /\ LET k == KindOf(cur[p].op) IN
        /\ counters' = IF k = "counter"
                       THEN MapPut(counters, cur[p].name, held[p]) ELSE counters
        /\ histograms' = IF k = "histogram"
                         THEN MapPut(histograms, cur[p].name, held[p]) ELSE histograms
        /\ gauges' = IF k = "gauge"
                     THEN MapPut(gauges, cur[p].name, held[p]) ELSE gauges
    /\ IF cur[p].op \in CreateOps
       THEN Finish(p, "nil", "none")
       ELSE /\ mpc' = [mpc EXCEPT ![p] = "use"]
            /\ UNCHANGED <<ret, printed>>
    /\ UNCHANGED <<facade, instruments, recorded, cur, held, ncalls, crashed>>
    /\ UNCHANGED <<orchVars, logVars>>

\* counter.Add / histogram.Record and the return (lines 116-117, 153-154, 202).
MUse(p) ==
    /\ crashed = "none"
    /\ mpc[p] = "use"
    /\ recorded' = recorded \cup {[inst |-> held[p], by |-> p]}
    /\ Finish(p, IF cur[p].op = "MeasureDuration" THEN "void" ELSE "nil", "none")
    /\ UNCHANGED <<facade, counters, gauges, histograms, instruments, cur, held,
                   ncalls, crashed>>
    /\ UNCHANGED <<orchVars, logVars>>

\* The caches are plain Go maps accessed without a lock. When goroutine p is
\* about to write a map that q is about to read or write, the two accesses
\* can overlap; the runtime may then stop the process ("fatal error:
\* concurrent map writes" / "concurrent map read and map write").
MapAccessPCs == {"lookup", "check", "insert"}
MapFault(p, q) ==
    /\ crashed = "none"
    /\ p # q
    /\ mpc[p] = "insert"
    /\ mpc[q] \in MapAccessPCs
    /\ KindOf(cur[p].op) = KindOf(cur[q].op)
    /\ crashed' = "fatal error: concurrent map access"
    /\ UNCHANGED <<facade, counters, gauges, histograms, instruments, recorded,
                   mpc, cur, held, ret, printed, ncalls>>
    /\ UNCHANGED <<orchVars, logVars>>

OrchestratorIdle ==
    /\ pc = "Running"
    /\ logConfig = [OutputPaths |-> <<>>, Level |-> InfoLevel]
    /\ tracingConfig = [Enabled |-> FALSE, SamplingRate |-> NoSampler.ratio]
    /\ metricsConfig \in [Enabled : BOOLEAN]
    /\ logger = NilLogger
    /\ tracer = "nil"
    /\ tracerShutdown = "nil"
    /\ metrics = NilMetrics
    /\ sampler = NoSampler
    /\ result = NoResult
    /\ cleanupCtx = NoCtx
    /\ cleanups = MaxCleanups
    /\ calls = <<>>

\* A facade straight out of NewMetrics, enabled or disabled.
MetricsInit ==
    /\ OrchestratorIdle
    /\ facade = NewMetrics(InitCtx, metricsConfig, FALSE, FALSE).metrics
    /\ MetricsIdle
    /\ LoggerIdle

MetricsNext ==
    \E p \in Procs :
        \/ MCall(p)
        \/ MShutdown(p)
        \/ MLookup(p)
        \/ MCheck(p)
        \/ MCreate(p)
        \/ MRegister(p)
        \/ MInsert(p)
        \/ MUse(p)
        \/ \E q \in Procs : MapFault(p, q)

MetricsSpec == MetricsInit /\ [][MetricsNext]_vars

\* ------------------------------------------------------------------------
\* The same facade used sequentially: an operation is started only when no
\* other is in progress, so each runs from entry to return on its own.
\* ------------------------------------------------------------------------
NoneInProgress == \A q \in Procs : mpc[q] = "idle"

SeqCall(p) ==
    /\ NoneInProgress
    /\ MCall(p)

SeqShutdown(p) ==
    /\ NoneInProgress
    /\ MShutdown(p)

\* An enabled facade straight out of NewMetrics.
SeqMetricsInit ==
    /\ MetricsInit
    /\ metricsConfig.Enabled

SeqMetricsNext ==
    \E p \in Procs :
        \/ SeqCall(p)
        \/ SeqShutdown(p)
        \/ MLookup(p)
        \/ MCheck(p)
        \/ MCreate(p)
        \/ MRegister(p)
        \/ MInsert(p)
        \/ MUse(p)

SeqMetricsSpec == SeqMetricsInit /\ [][SeqMetricsNext]_vars

\* ------------------------------------------------------------------------
\* The log methods of the Logger facade
\* ------------------------------------------------------------------------
\* The body shared by the five methods: append the trace fields to the
\* caller's, hand the entry to the backend, which writes it when the level is
\* enabled and ends the process after a Fatal entry.
LogAt(level, ctx, user) ==
    LET fields == user \o extractTraceFields(ctx) IN
    /\ lastLog' = [called |-> TRUE, level |-> level, ctx |-> ctx,
                   user |-> user, fields |-> fields]
    /\ sink' = IF level >= logger.level
               THEN Append(sink, [level |-> level, fields |-> fields])
               ELSE sink
    /\ exited' = (level = FatalLevel)
    /\ UNCHANGED <<orchVars, metVars>>

CanLog == ~exited /\ logger.present /\ Len(sink) < MaxLog

\* lines 124-128
Debug ==
    /\ CanLog
    /\ \E ctx \in LogContexts, user \in UserFields : LogAt(DebugLevel, ctx, user)

\* lines 130-134
Info ==
    /\ CanLog
    /\ \E ctx \in LogContexts, user \in UserFields : LogAt(InfoLevel, ctx, user)

\* lines 136-140
Warn ==
    /\ CanLog
    /\ \E ctx \in LogContexts, user \in UserFields : LogAt(WarnLevel, ctx, user)

\* lines 142-146
Error ==
    /\ CanLog
    /\ \E ctx \in LogContexts, user \in UserFields : LogAt(ErrorLevel, ctx, user)

\* lines 148-152
Fatal ==
    /\ CanLog
    /\ \E ctx \in LogContexts, user \in UserFields : LogAt(FatalLevel, ctx, user)

\* A logger straight out of NewLogger, at any configured level.
LogInit ==
    /\ pc = "Running"
    /\ logConfig \in [OutputPaths : {<<>>}, Level : ConfigLevels]
    /\ tracingConfig = [Enabled |-> FALSE, SamplingRate |-> NoSampler.ratio]
    /\ metricsConfig = [Enabled |-> FALSE]
    /\ logger = NewLogger(logConfig, {}).logger
    /\ tracer = "tracer"
    /\ tracerShutdown = "nil"
    /\ metrics = NilMetrics
    /\ sampler = NoSampler
    /\ result = NoResult
    /\ cleanupCtx = NoCtx
    /\ cleanups = MaxCleanups
    /\ calls = <<>>
    /\ facade = NilMetrics
    /\ MetricsIdle
    /\ LoggerIdle

LogNext ==
    \/ Debug
    \/ Info
    \/ Warn
    \/ Error
    \/ Fatal

LogSpec == LogInit /\ [][LogNext]_vars

Next ==
    \/ InitLogger
    \/ InitTracer
    \/ InitMetrics
    \/ CleanupBegin
    \/ CleanupMetrics
    \/ CleanupTracer
    \/ CleanupSync

Spec == Init /\ [][Next]_vars

\* ------------------------------------------------------------------------
\* Properties of the orchestrator
\* ------------------------------------------------------------------------
CallIdx(op, inv) == {i \in 1..Len(calls) : calls[i].op = op /\ calls[i].inv = inv}
StageCalls == {"NewLogger", "setupTracing", "NewMetrics"}
StageName(op) == CASE op = "NewLogger" -> "logger"
                   [] op = "setupTracing" -> "tracer"
                   [] OTHER -> "metrics"
FailedStages == {op \in StageCalls : \E i \in CallIdx(op, 0) : calls[i].failed}
SucceededBefore(op, j) == \E i \in CallIdx(op, 0) : i < j /\ ~calls[i].failed

\* C1: the stages are attempted in the order logger, tracer, metrics, each at
\* most once, and a stage is attempted only after every earlier stage has
\* succeeded: no tracer or metrics construction after a logger failure, no
\* metrics construction after a tracer failure.
C1_StageOrder ==
    /\ \A op \in StageCalls : Cardinality(CallIdx(op, 0)) <= 1
    /\ \A j \in CallIdx("setupTracing", 0) : SucceededBefore("NewLogger", j)
    /\ \A j \in CallIdx("NewMetrics", 0) :
          SucceededBefore("NewLogger", j) /\ SucceededBefore("setupTracing", j)
    /\ "NewLogger" \in FailedStages =>
          CallIdx("setupTracing", 0) = {} /\ CallIdx("NewMetrics", 0) = {}
    /\ "setupTracing" \in FailedStages => CallIdx("NewMetrics", 0) = {}

C1_Witness ==
    /\ result.returned
    /\ "setupTracing" \in FailedStages
    /\ CallIdx("NewLogger", 0) # {}

TeardownOps == {"tracerShutdown", "tp.Shutdown", "metrics.Shutdown",
                "meterProvider.Shutdown", "logger.Sync"}

\* C2: during initialization the only teardown is the tracer's shutdown; it
\* is invoked exactly once when the metrics stage fails (after the failed
\* NewMetrics and before the return), and not at all otherwise.
C2_InitTeardown ==
    LET teardown == {i \in 1..Len(calls) :
                        calls[i].inv = 0 /\ calls[i].op \in TeardownOps}
    IN  /\ \A i \in teardown : calls[i].op \in {"tracerShutdown", "tp.Shutdown"}
        /\ Cardinality(CallIdx("tracerShutdown", 0)) =
              IF "NewMetrics" \in FailedStages THEN 1 ELSE 0
        /\ Cardinality(CallIdx("tp.Shutdown", 0)) <= 1
        /\ \A i \in CallIdx("tracerShutdown", 0) :
              /\ \E m \in CallIdx("NewMetrics", 0) : m < i /\ calls[m].failed
              /\ \E r \in CallIdx("return", 0) : i < r /\ calls[r].failed
        /\ FailedStages \cap {"NewLogger", "setupTracing"} # {} => teardown = {}

C2_Witness ==
    /\ result.returned
    /\ "NewMetrics" \in FailedStages
    /\ CallIdx("tp.Shutdown", 0) # {}

CleanupStepOps == <<"metrics.Shutdown", "tracerShutdown", "logger.Sync">>
IsCleanupStep(c) == \E n \in 1..Len(CleanupStepOps) : c.op = CleanupStepOps[n]
\* The steps the k-th cleanup invocation has attempted, in order.
StepsOf(k) ==
    LET Mine(c) == c.inv = k /\ IsCleanupStep(c)
        s == SelectSeq(calls, Mine)
    IN  [i \in 1..Len(s) |-> s[i].op]
CleanupReturned(k) == CallIdx("cleanup.return", k) # {}

\* C3: every cleanup invocation attempts metrics shutdown, tracer shutdown,
\* logger sync in that order whichever of them fail; it returns only after
\* all three were attempted, and it returns no failure.
C3_CleanupOrder ==
    \A k \in 1..cleanups :
        /\ Len(StepsOf(k)) <= Len(CleanupStepOps)
        /\ StepsOf(k) = SubSeq(CleanupStepOps, 1, Len(StepsOf(k)))
        /\ CleanupReturned(k) => StepsOf(k) = CleanupStepOps
        /\ (k < cleanups \/ pc = "Running") => CleanupReturned(k)
        /\ \A i \in CallIdx("cleanup.return", k) : ~calls[i].failed

C3_Witness ==
    /\ CleanupReturned(1)
    /\ \A n \in 1..Len(CleanupStepOps) :
          \E i \in CallIdx(CleanupStepOps[n], 1) : calls[i].failed

\* C6: over any number of sequential cleanup invocations, metrics shutdown,
\* tracer shutdown and logger sync are each performed at most once.
C6_CleanupIdempotent ==
    \A n \in 1..Len(CleanupStepOps) :
        Cardinality({i \in 1..Len(calls) :
                        calls[i].inv > 0 /\ calls[i].op = CleanupStepOps[n]}) <= 1

\* C7: within a cleanup invocation every backend shutdown call (the meter
\* provider's and the tracer provider's) receives the 5-second timeout
\* context that invocation created.
C7_SharedTimeoutCtx ==
    \A i \in 1..Len(calls) :
        (calls[i].inv > 0 /\ calls[i].op \in {"meterProvider.Shutdown", "tp.Shutdown"})
            => calls[i].ctx = TimeoutCtx(calls[i].inv)

\* C8: initialization returns either a provider with Logger, Tracer and
\* Metrics all set, a cleanup and no error, or no provider, no cleanup and
\* an error that wraps the construction error under the failing stage's
\* name; a construction error always ends in the second outcome.
C8_InitOutcome ==
    /\ result.returned =>
        \/ /\ result.err = NilErr
           /\ FailedStages = {}
           /\ result.provider.present
           /\ result.provider.Logger.present
           /\ result.provider.Tracer # "nil"
           /\ result.provider.Metrics.present
           /\ result.cleanup # "nil"
        \/ /\ result.err # NilErr
           /\ ~result.provider.present
           /\ result.cleanup = "nil"
           /\ \E op \in FailedStages :
                 /\ FailedStages = {op}
                 /\ Head(result.err) = "failed to initialize " \o StageName(op)
                 /\ Len(result.err) > 1
    /\ FailedStages # {} => result.returned /\ result.err # NilErr

C8_Witness ==
    /\ result.returned
    /\ result.err # NilErr
    /\ "NewMetrics" \in FailedStages

\* C10: with tracing enabled and set up, rate >= 1 selects always-sample,
\* rate <= 0 selects never-sample, 0 < rate < 1 selects the ratio-based
\* sampler with that ratio, and one of the three is selected for every rate.
C10_SamplerSelection ==
    (tracingConfig.Enabled /\ tracerShutdown = "tp.Shutdown") =>
        LET r == tracingConfig.SamplingRate IN
        /\ sampler.kind \in {"AlwaysSample", "NeverSample", "TraceIDRatioBased"}
        /\ (~r.nan /\ r.num >= r.den) => sampler.kind = "AlwaysSample"
        /\ (~r.nan /\ r.num <= 0) => sampler.kind = "NeverSample"
        /\ (~r.nan /\ 0 < r.num /\ r.num < r.den) =>
              sampler.kind = "TraceIDRatioBased" /\ sampler.ratio = r

C10_Witness ==
    /\ tracingConfig.Enabled
    /\ tracerShutdown = "tp.Shutdown"
    /\ tracingConfig.SamplingRate.num = tracingConfig.SamplingRate.den
    /\ sampler.kind = "AlwaysSample"

\* ------------------------------------------------------------------------
\* Properties of the Metrics facade
\* ------------------------------------------------------------------------
\* Instruments the facade accepted: created and, for a gauge, registered.
Accepted == {i \in instruments : i.kind # "gauge" \/ i.callback}

\* C4: however concurrent first-use calls for one name and kind interleave,
\* the backend is asked for one instrument only, and every measurement goes
\* to the instrument the cache holds.
C4_AtomicFirstUse ==
    metricsConfig.Enabled =>
        /\ \A k \in Kinds, n \in Names :
              Cardinality({i \in Accepted : i.kind = k /\ i.name = n}) <= 1
        /\ \A r \in recorded :
              MapGet(CacheOf(r.inst.kind), r.inst.name) = r.inst

\* C5: on a facade built with metrics disabled every operation returns
\* success, nothing is recorded or created, and the process does not crash.
C5_DisabledNoOp ==
    ~metricsConfig.Enabled =>
        /\ crashed = "none"
        /\ \A p \in Procs : ret[p] \in {"none", "pending", "nil", "void"}
        /\ recorded = {}
        /\ instruments = {}

\* The instruments the backend has created for one kind and name.
CreatedFor(k, n) == {i \in instruments : i.kind = k /\ i.name = n}

\* C11: in sequential use of an enabled facade, creation and registration
\* failures included, the backend creates at most one instrument per kind
\* and name, the cache entry of a name is that instrument, and every
\* measurement goes to it.
C11_CreateOnce ==
    metricsConfig.Enabled =>
        /\ \A k \in Kinds, n \in Names : Cardinality(CreatedFor(k, n)) <= 1
        /\ \A k \in Kinds, n \in Names :
              MapHas(CacheOf(k), n) => CreatedFor(k, n) = {MapGet(CacheOf(k), n)}
        /\ \A r \in recorded :
              MapGet(CacheOf(r.inst.kind), r.inst.name) = r.inst


\* A step in which goroutine p's first-use creation fails: it leaves the
\* backend call without an instrument to insert.
FirstUseFails(p) ==
    /\ mpc[p] = "create"
    /\ cur[p].op \in LazyOps
    /\ mpc'[p] \notin {"create", "insert"}
\* A step of p's lazy operation that comes before the backend call.
BeforeCreate(p) ==
    /\ mpc[p] \in {"lookup", "check"}
    /\ cur[p].op \in LazyOps
    /\ mpc'[p] # mpc[p]
CachesUnchanged ==
    /\ counters' = counters
    /\ gauges' = gauges
    /\ histograms' = histograms

\* C12 as stated: when first-use creation fails in IncrementCounter,
\* RecordHistogram or a stop function, the failure goes to the standard
\* error output, the operation returns a failure indicator, nothing is
\* recorded, the caches are unchanged, and the process does not crash.
C12_Original ==
    [][\A p \in Procs :
          /\ BeforeCreate(p) => CachesUnchanged /\ recorded' = recorded
          /\ FirstUseFails(p) =>
                /\ mpc'[p] = "idle"
                /\ printed'[p] = "stderr"
                /\ ret'[p] = "error"
                /\ recorded' = recorded
                /\ CachesUnchanged
                /\ crashed' = "none"]_vars

\* C12, amended: the failure is printed to the standard output;
\* IncrementCounter and RecordHistogram return the error, the stop function
\* (which has no return value) just returns; nothing is recorded, the caches
\* are unchanged, and the process does not crash.
C12_FirstUseFailure ==
    [][\A p \in Procs :
          /\ BeforeCreate(p) => CachesUnchanged /\ recorded' = recorded
          /\ FirstUseFails(p) =>
                /\ mpc'[p] = "idle"
                /\ printed'[p] = "stdout"
                /\ ret'[p] = (IF cur[p].op = "MeasureDuration" THEN "void" ELSE "error")
                /\ recorded' = recorded
                /\ CachesUnchanged
                /\ crashed' = "none"]_vars

\* A stop function whose first-use creation failed, on a facade that
\* already caches another histogram.
C12_Witness ==
    \E p \in Procs :
        /\ mpc[p] = "idle"
        /\ cur[p].op = "MeasureDuration"
        /\ held[p] = NoInstrument
        /\ printed[p] = "stdout"
        /\ ret[p] = "void"
        /\ histograms # EmptyMap
        /\ recorded # {}

\* ------------------------------------------------------------------------
\* Properties of the Logger facade
\* ------------------------------------------------------------------------
\* The fields the facade added to the caller's in its last call.
AddedFields == SubSeq(lastLog.fields, Len(lastLog.user) + 1, Len(lastLog.fields))

\* C9: whatever the method and the context, the logger adds trace_id and
\* span_id exactly when the context's span context is valid; then they carry
\* the values GetTraceID / GetSpanID return, and nothing is added exactly
\* when those return the empty string.
C9_TraceFields ==
    lastLog.called =>
        LET t == GetTraceID(lastLog.ctx)
            sp == GetSpanID(lastLog.ctx)
        IN  /\ (AddedFields # <<>>) <=> IsValid(SpanContextFromContext(lastLog.ctx))
            /\ (t = "") <=> (sp = "")
            /\ (t # "" /\ sp # "") =>
                  AddedFields = <<ZapString("trace_id", t), ZapString("span_id", sp)>>
            /\ (t = "" \/ sp = "") => AddedFields = <<>>
            /\ lastLog.level >= logger.level =>
                  /\ sink # <<>>
                  /\ sink[Len(sink)] = [level |-> lastLog.level,
                                        fields |-> lastLog.fields]

C9_Witness ==
    /\ lastLog.called
    /\ lastLog.level = FatalLevel
    /\ GetTraceID(lastLog.ctx) # ""
    /\ Len(AddedFields) = 2
    /\ Len(sink) = MaxLog

====
